---- MODULE Spec2Model ----
(***************************************************************************)
(* Model of the http-error crate (src/lib.rs): the HttpError value, its    *)
(* builder, the ResultExt conversions, the convenience constructors and    *)
(* macros, and the recover boundary with its logging walk.                 *)
(*                                                                         *)
(* Option<T> is a sequence of length 0 (None) or 1 (Some(v)).              *)
(* A boxed error (Box<dyn Error>) is [desc, source]: its Display text and  *)
(* what its source() returns, an Option of a boxed error.                  *)
(***************************************************************************)
EXTENDS Integers, Sequences, FiniteSets, TLC

\* Bounds of the model.
MaxDepth == 2          \* longest cause chain handed to the crate by a caller
MaxBuilderSteps == 2   \* builder calls (with_message / with_source) per value

\* http::StatusCode constants the crate names.
OK == 200
NO_CONTENT == 204
BAD_REQUEST == 400
FORBIDDEN == 403
NOT_FOUND == 404
INTERNAL_SERVER_ERROR == 500
None == <<>>
Some(v) == <<v>>

\* The statuses the crate names, and 299, a valid status code that has no
\* canonical reason phrase.
Statuses == {OK, NO_CONTENT, BAD_REQUEST, FORBIDDEN, NOT_FOUND,
             INTERNAL_SERVER_ERROR, 299}
Messages == {"missing field: email", "no such user"}
OptMessages == {None} \cup {Some(m) : m \in Messages}
Descs == {"not-a-number", "io failure"}
Values == {7, 42}

\* StatusCode::canonical_reason: the standard phrase of a status, if any.
canonical_reason(s) ==
    CASE s = OK -> Some("OK")
      [] s = NO_CONTENT -> Some("No Content")
      [] s = BAD_REQUEST -> Some("Bad Request")
      [] s = FORBIDDEN -> Some("Forbidden")
      [] s = NOT_FOUND -> Some("Not Found")
      [] s = INTERNAL_SERVER_ERROR -> Some("Internal Server Error")
      [] OTHER -> None

\* Option::unwrap_or
unwrap_or(opt, dflt) == IF opt = None THEN dflt ELSE opt[1]

\* Boxed errors whose cause chain (the error itself included) has at most
\* n links.
RECURSIVE BoxedErrors(_)
BoxedErrors(n) ==
    IF n = 0 THEN {}
    ELSE LET inner == BoxedErrors(n - 1)
         IN  {[desc |-> d, source |-> None] : d \in Descs}
             \cup {[desc |-> d, source |-> Some(e)] : d \in Descs, e \in inner}

BoxedError == BoxedErrors(MaxDepth)

\* What a caller can pass where `impl Into<Box<dyn Error + Send + Sync>>` is
\* asked: a string (kind "str", no source) or an error value (kind "error").
Failures ==
    {[kind |-> "str", desc |-> d, source |-> None] : d \in Descs}
    \cup {[kind |-> "error", desc |-> e.desc, source |-> e.source] : e \in BoxedError}

ErrorFailures == {f \in Failures : f.kind = "error"}

\* Faulty variant: the conversion keeps the text and loses the further chain.
into_boxed_flat(f) == [desc |-> f.desc, source |-> None]

\* Into<Box<dyn Error>>: a string becomes an error that displays as the
\* string and has no source; an error value is boxed as it is.
into_boxed(f) ==
    IF f.kind = "str"
    THEN [desc |-> f.desc, source |-> None]
    ELSE [desc |-> f.desc, source |-> f.source]

(***************************************************************************)
(* HttpError and its builder.                                              *)
(***************************************************************************)
HttpError_new(s) == [status |-> s, message |-> None, source |-> None]

\* Faulty variant: the builder rebuilds the value and forgets the cause.
with_message_drop_source(e, m) ==
    [e EXCEPT !.message = Some(m), !.source = None]

with_message(e, m) == [e EXCEPT !.message = Some(m)]

\* Faulty variant: setting the cause resets the message.
with_source_clear_message(e, f) ==
    [e EXCEPT !.source = Some(into_boxed(f)), !.message = None]

with_source(e, f) == [e EXCEPT !.source = Some(into_boxed(f))]

HttpError_status(e) == e.status

HttpError_message(e) == e.message

\* impl error::Error for HttpError: source()
HttpError_source(e) == e.source

\* impl fmt::Display for HttpError; StatusCode displays as its number
\* followed by its canonical reason.
Display(e) ==
    "fail with status " \o ToString(e.status) \o " "
        \o unwrap_or(canonical_reason(e.status), "<unknown status code>")

(***************************************************************************)
(* Results and rejections.                                                 *)
(***************************************************************************)
Ok_(v) == [is_ok |-> TRUE, val |-> Some(v), err |-> None]
Err_(e) == [is_ok |-> FALSE, val |-> None, err |-> Some(e)]

\* The Results a handler can hold before converting them.
Results == {Ok_(v) : v \in Values} \cup {Err_(f) : f \in Failures}

\* warp::reject::custom(HttpError) / From<HttpError> for Rejection
reject_custom(e) == [kind |-> "HttpError", payload |-> Some(e)]

\* Rejections that do not carry an HttpError: warp's own, or another
\* crate's custom rejection.
ForeignRejections ==
    {[kind |-> k, payload |-> None] :
        k \in {"NotFound", "MethodNotAllowed", "OtherCustom"}}

\* Faulty variant: a rejection of another origin is treated as a 500 of this crate.
find_or_default(rej) ==
    IF rej.kind = "HttpError" THEN rej.payload
    ELSE Some(HttpError_new(INTERNAL_SERVER_ERROR))

\* Rejection::find::<HttpError>()
find(rej) == IF rej.kind = "HttpError" THEN rej.payload ELSE None

(***************************************************************************)
(* ResultExt.                                                              *)
(***************************************************************************)
\* Faulty variant: the wrapping is applied to Ok as well.
with_err_status_wraps_ok(r, s) ==
    Err_(reject_custom([status |-> s, message |-> None,
                        source |-> Some(into_boxed(
                            IF r.is_ok
                            THEN [kind |-> "str", desc |-> "ok", source |-> None]
                            ELSE r.err[1]))]))

\* self.map_err(|err| warp::reject::custom(HttpError { status,
\*     message: None, source: Some(err.into()) }))
with_err_status(r, s) ==
    IF r.is_ok
    THEN r
    ELSE Err_(reject_custom([status |-> s, message |-> None,
                             source |-> Some(into_boxed(r.err[1]))]))

\* Faulty variant: the message is computed before the result is looked at.
with_err_msg_eager(r, s, m) ==
    IF r.is_ok
    THEN [result |-> r, invoked |-> 1]
    ELSE [result |-> Err_(reject_custom([status |-> s, message |-> Some(m),
                                         source |-> Some(into_boxed(r.err[1]))])),
          invoked |-> 1]

\* self.map_err(|err| warp::reject::custom(HttpError { status,
\*     message: Some(message()), source: Some(err.into()) }))
\* m is what the closure `message` returns; invoked counts its calls, which
\* happen where Some(message()) is built.
with_err_msg(r, s, m) ==
    IF r.is_ok
    THEN [result |-> r, invoked |-> 0]
    ELSE [result |-> Err_(reject_custom([status |-> s, message |-> Some(m),
                                         source |-> Some(into_boxed(r.err[1]))])),
          invoked |-> 1]

client_err(r) == with_err_status(r, BAD_REQUEST)

server_err(r) == with_err_status(r, INTERNAL_SERVER_ERROR)

(***************************************************************************)
(* Convenience constructors and macros.                                    *)
(***************************************************************************)
status(s) == HttpError_new(s)

no_content == HttpError_new(NO_CONTENT)

ok == HttpError_new(OK)

\* Faulty variant: the cause is not stored.
internal_server_error_no_source(f) == HttpError_new(INTERNAL_SERVER_ERROR)

internal_server_error(f) ==
    with_source(HttpError_new(INTERNAL_SERVER_ERROR), f)

\* The arms of each macro: no argument (None), or a message, literal or
\* produced by format!.
not_found(m) ==
    IF m = None
    THEN reject_custom(HttpError_new(NOT_FOUND))
    ELSE reject_custom(with_message(HttpError_new(NOT_FOUND), m[1]))

bad_request(m) ==
    IF m = None
    THEN reject_custom(HttpError_new(BAD_REQUEST))
    ELSE reject_custom(with_message(HttpError_new(BAD_REQUEST), m[1]))

forbidden(m) ==
    IF m = None
    THEN reject_custom(HttpError_new(FORBIDDEN))
    ELSE reject_custom(with_message(HttpError_new(FORBIDDEN), m[1]))

(***************************************************************************)
(* recover: the pure parts.                                                *)
(***************************************************************************)
\* Faulty variant: the message is ignored.
body_reason_only(e) == unwrap_or(canonical_reason(e.status), "")

\* Faulty variant: the text of the cause is used when no message is set.
body_with_cause(e) ==
    IF e.message # None THEN e.message[1]
    ELSE IF e.source # None THEN e.source[1].desc
    ELSE unwrap_or(canonical_reason(e.status), "")

\* err.message().unwrap_or_else(|| err.status().canonical_reason()
\*     .unwrap_or("")).to_string()
body(e) ==
    IF HttpError_message(e) # None
    THEN HttpError_message(e)[1]
    ELSE unwrap_or(canonical_reason(HttpError_status(e)), "")

\* warp::reply::with_status(body, status)
with_status(b, s) == [status |-> s, body |-> b]

\* error!("  -> {}", err)
chain_line(e) == "  -> " \o e.desc

\* Faulty variant: the walk stops after the first link.
error_source_none(e) == None

\* source() of a link of the cause chain
error_source(e) == e.source

(***************************************************************************)
(* State: one request, from the handler's failure to the recovered reply.  *)
(***************************************************************************)
VARIABLES
    pc,         \* "start", "building", "rejected", "walk", "done"
    call,       \* the last constructor, builder, conversion or macro call
    err,        \* Option<HttpError>: the value the handler is building
    steps,      \* builder calls made on err
    seen,       \* what status() and message() last returned to the handler
    conv,       \* Option<Result<T, Rejection>>: what a conversion returned
    msg_calls,  \* invocations of the closure given to with_err_msg
    rej,        \* Option<Rejection>: the rejection handed to recover
    source,     \* recover's local `source`
    log,        \* the error-level log lines, in order
    outcome     \* Option<Result<Reply, Rejection>>: what recover returned

vars == <<pc, call, err, steps, seen, conv, msg_calls, rej, source, log, outcome>>

Call(op, self, s, m, c) ==
    [op |-> op, self |-> self, status |-> s, msg |-> m, cause |-> c]

Init ==
    /\ pc = "start"
    /\ call = Call("none", None, None, None, None)
    /\ err = None
    /\ steps = 0
    /\ seen = [status |-> None, message |-> None]
    /\ conv = None
    /\ msg_calls = 0
    /\ rej = None
    /\ source = None
    /\ log = <<>>
    /\ outcome = None

\* The constructors: each returns a value to the handler.
New(s) ==
    /\ pc = "start"
    /\ err' = Some(HttpError_new(s))
    /\ call' = Call("new", None, Some(s), None, None)
    /\ pc' = "building"
    /\ UNCHANGED <<steps, seen, conv, msg_calls, rej, source, log, outcome>>

Status(s) ==
    /\ pc = "start"
    /\ err' = Some(status(s))
    /\ call' = Call("status", None, Some(s), None, None)
    /\ pc' = "building"
    /\ UNCHANGED <<steps, seen, conv, msg_calls, rej, source, log, outcome>>

NoContent ==
    /\ pc = "start"
    /\ err' = Some(no_content)
    /\ call' = Call("no_content", None, None, None, None)
    /\ pc' = "building"
    /\ UNCHANGED <<steps, seen, conv, msg_calls, rej, source, log, outcome>>

Ok ==
    /\ pc = "start"
    /\ err' = Some(ok)
    /\ call' = Call("ok", None, None, None, None)
    /\ pc' = "building"
    /\ UNCHANGED <<steps, seen, conv, msg_calls, rej, source, log, outcome>>

InternalServerError(f) ==
    /\ pc = "start"
    /\ err' = Some(internal_server_error(f))
    /\ call' = Call("internal_server_error", None, None, None, Some(f))
    /\ pc' = "building"
    /\ UNCHANGED <<steps, seen, conv, msg_calls, rej, source, log, outcome>>

WithMessage(m) ==
    /\ pc = "building"
    /\ steps < MaxBuilderSteps
    /\ err' = Some(with_message(err[1], m))
    /\ call' = Call("with_message", None, None, Some(m), None)
    /\ steps' = steps + 1
    /\ UNCHANGED <<pc, seen, conv, msg_calls, rej, source, log, outcome>>

WithSource(f) ==
    /\ pc = "building"
    /\ steps < MaxBuilderSteps
    /\ err' = Some(with_source(err[1], f))
    /\ call' = Call("with_source", None, None, None, Some(f))
    /\ steps' = steps + 1
    /\ UNCHANGED <<pc, seen, conv, msg_calls, rej, source, log, outcome>>

ReadStatus ==
    /\ pc = "building"
    /\ seen' = [seen EXCEPT !.status = Some(HttpError_status(err[1]))]
    /\ UNCHANGED <<pc, call, err, steps, conv, msg_calls, rej, source, log, outcome>>

ReadMessage ==
    /\ pc = "building"
    /\ seen' = [seen EXCEPT !.message = Some(HttpError_message(err[1]))]
    /\ UNCHANGED <<pc, call, err, steps, conv, msg_calls, rej, source, log, outcome>>

\* From<HttpError> for Rejection: the value moves into the rejection.
Reject ==
    /\ pc = "building"
    /\ rej' = Some(reject_custom(err[1]))
    /\ err' = None
    /\ pc' = "rejected"
    /\ UNCHANGED <<call, steps, seen, conv, msg_calls, source, log, outcome>>

\* The macros: each produces a rejection.
NotFound(m) ==
    /\ pc = "start"
    /\ rej' = Some(not_found(m))
    /\ call' = Call("not_found", None, None, m, None)
    /\ pc' = "rejected"
    /\ UNCHANGED <<err, steps, seen, conv, msg_calls, source, log, outcome>>

BadRequest(m) ==
    /\ pc = "start"
    /\ rej' = Some(bad_request(m))
    /\ call' = Call("bad_request", None, None, m, None)
    /\ pc' = "rejected"
    /\ UNCHANGED <<err, steps, seen, conv, msg_calls, source, log, outcome>>

Forbidden(m) ==
    /\ pc = "start"
    /\ rej' = Some(forbidden(m))
    /\ call' = Call("forbidden", None, None, m, None)
    /\ pc' = "rejected"
    /\ UNCHANGED <<err, steps, seen, conv, msg_calls, source, log, outcome>>

\* The conversions: Ok ends the handler's error path, Err is the rejection
\* that short-circuits the request.
ClientErr(r) ==
    /\ pc = "start"
    /\ conv' = Some(client_err(r))
    /\ rej' = client_err(r).err
    /\ call' = Call("client_err", Some(r), None, None, None)
    /\ pc' = IF client_err(r).is_ok THEN "done" ELSE "rejected"
    /\ UNCHANGED <<err, steps, seen, msg_calls, source, log, outcome>>

ServerErr(r) ==
    /\ pc = "start"
    /\ conv' = Some(server_err(r))
    /\ rej' = server_err(r).err
    /\ call' = Call("server_err", Some(r), None, None, None)
    /\ pc' = IF server_err(r).is_ok THEN "done" ELSE "rejected"
    /\ UNCHANGED <<err, steps, seen, msg_calls, source, log, outcome>>

WithErrStatus(r, s) ==
    /\ pc = "start"
    /\ conv' = Some(with_err_status(r, s))
    /\ rej' = with_err_status(r, s).err
    /\ call' = Call("with_err_status", Some(r), Some(s), None, None)
    /\ pc' = IF with_err_status(r, s).is_ok THEN "done" ELSE "rejected"
    /\ UNCHANGED <<err, steps, seen, msg_calls, source, log, outcome>>

WithErrMsg(r, s, m) ==
    /\ pc = "start"
    /\ conv' = Some(with_err_msg(r, s, m).result)
    /\ msg_calls' = msg_calls + with_err_msg(r, s, m).invoked
    /\ rej' = with_err_msg(r, s, m).result.err
    /\ call' = Call("with_err_msg", Some(r), Some(s), Some(m), None)
    /\ pc' = IF with_err_msg(r, s, m).result.is_ok THEN "done" ELSE "rejected"
    /\ UNCHANGED <<err, steps, seen, source, log, outcome>>

\* The framework hands recover a rejection that is not this crate's.
Foreign(r) ==
    /\ pc = "start"
    /\ rej' = Some(r)
    /\ pc' = "rejected"
    /\ UNCHANGED <<call, err, steps, seen, conv, msg_calls, source, log, outcome>>

(***************************************************************************)
(* recover, one step per log line.                                         *)
(***************************************************************************)
\* if let Some(ref err) = err.find::<HttpError>() { error!("{}", err);
\* let mut source = err.source();
RecoverFind ==
    /\ pc = "rejected"
    /\ find(rej[1]) # None
    /\ log' = Append(log, Display(find(rej[1])[1]))
    /\ source' = HttpError_source(find(rej[1])[1])
    /\ pc' = "walk"
    /\ UNCHANGED <<call, err, steps, seen, conv, msg_calls, rej, outcome>>

\* while let Some(err) = source { error!("  -> {}", err); source = err.source(); }
RecoverWalk ==
    /\ pc = "walk"
    /\ source # None
    /\ log' = Append(log, chain_line(source[1]))
    /\ source' = error_source(source[1])
    /\ UNCHANGED <<pc, call, err, steps, seen, conv, msg_calls, rej, outcome>>

\* Ok(warp::reply::with_status(..., err.status()))
RecoverReply ==
    /\ pc = "walk"
    /\ source = None
    /\ outcome' = Some(Ok_(with_status(body(find(rej[1])[1]),
                                       HttpError_status(find(rej[1])[1]))))
    /\ pc' = "done"
    /\ UNCHANGED <<call, err, steps, seen, conv, msg_calls, rej, source, log>>

\* } else { Err(err) }
RecoverPassThrough ==
    /\ pc = "rejected"
    /\ find(rej[1]) = None
    /\ outcome' = Some(Err_(rej[1]))
    /\ pc' = "done"
    /\ UNCHANGED <<call, err, steps, seen, conv, msg_calls, rej, source, log>>

Next ==
    \/ \E s \in Statuses : New(s)
    \/ \E s \in Statuses : Status(s)
    \/ NoContent
    \/ Ok
    \/ \E f \in ErrorFailures : InternalServerError(f)
    \/ \E m \in Messages : WithMessage(m)
    \/ \E f \in Failures : WithSource(f)
    \/ ReadStatus
    \/ ReadMessage
    \/ Reject
    \/ \E m \in OptMessages : NotFound(m)
    \/ \E m \in OptMessages : BadRequest(m)
    \/ \E m \in OptMessages : Forbidden(m)
    \/ \E r \in Results : ClientErr(r)
    \/ \E r \in Results : ServerErr(r)
    \/ \E r \in Results, s \in Statuses : WithErrStatus(r, s)
    \/ \E r \in Results, s \in Statuses, m \in Messages : WithErrMsg(r, s, m)
    \/ \E r \in ForeignRejections : Foreign(r)
    \/ RecoverFind
    \/ RecoverWalk
    \/ RecoverReply
    \/ RecoverPassThrough

Spec == Init /\ [][Next]_vars

\* recover is an async fn without an await point: once the framework has
\* called it, it runs to its return.
Recover == RecoverFind \/ RecoverWalk \/ RecoverReply \/ RecoverPassThrough

FairSpec == Spec /\ WF_vars(Recover)

(***************************************************************************)
(* Vocabulary of the properties.                                           *)
(***************************************************************************)
\* The HttpError of the request, wherever it is: in the handler's hands or
\* inside the rejection.
Held == IF err # None THEN err ELSE IF rej # None THEN rej[1].payload ELSE None

\* recover was given a rejection that carries an HttpError / one that does not.
Recognized == rej # None /\ rej[1].kind = "HttpError"
ForeignGiven == rej # None /\ rej[1].kind # "HttpError"

\* The descriptions of the links of a cause chain, outermost first.
RECURSIVE Chain(_)
Chain(src) == IF src = None THEN <<>> ELSE <<src[1].desc>> \o Chain(src[1].source)

Depth(e) == Len(Chain(e.source))

Reply == outcome[1].val[1]

Conversions == {"client_err", "server_err", "with_err_status", "with_err_msg"}

AnyCause == {None} \cup {Some(b) : b \in BoxedError}

(***************************************************************************)
(* C1. For every HttpError carried by a rejection, recover returns Ok with *)
(* a reply whose status is the stored status and whose body is the stored  *)
(* message if set, else the canonical reason phrase of the status, else    *)
(* the empty string; it never returns a rejection.                         *)
(***************************************************************************)
C1_RecoverRenders ==
    (pc = "done" /\ Recognized) =>
        LET e == rej[1].payload[1] IN
        /\ outcome # None
        /\ outcome[1].is_ok
        /\ outcome[1].err = None
        /\ Reply.status = e.status
        /\ Reply.body =
              IF e.message # None THEN e.message[1]
              ELSE IF canonical_reason(e.status) # None
                   THEN canonical_reason(e.status)[1]
                   ELSE ""
        /\ (e.message = None /\ e.status = NOT_FOUND => Reply.body = "Not Found")
        /\ (e.message = None /\ e.status = 299 => Reply.body = "")

\* A recovered error with a cause, no message and a status without phrase.
C1_Witness ==
    /\ pc = "done"
    /\ Recognized
    /\ rej[1].payload[1].message = None
    /\ rej[1].payload[1].source # None
    /\ rej[1].payload[1].status = 299
    /\ outcome = Some(Ok_([status |-> 299, body |-> ""]))

(***************************************************************************)
(* C2. Given a rejection that carries no HttpError, recover returns that   *)
(* same rejection as its Err result, produces no reply and logs nothing.   *)
(***************************************************************************)
C2_ForeignPassThrough ==
    ForeignGiven =>
        /\ log = <<>>
        /\ pc \in {"rejected", "done"}
        /\ (pc = "done" => outcome = Some(Err_(rej[1])))
        /\ (outcome # None => ~outcome[1].is_ok /\ outcome[1].val = None)

C2_Witness ==
    /\ pc = "done"
    /\ rej = Some([kind |-> "NotFound", payload |-> None])
    /\ outcome = Some(Err_([kind |-> "NotFound", payload |-> None]))
    /\ log = <<>>

(***************************************************************************)
(* C3. The reply does not depend on the cause: replacing the cause of the  *)
(* recovered error by any other cause (or none) gives the same status and  *)
(* body, and the body is none of the descriptions of the cause chain.      *)
(***************************************************************************)
C3_CauseNotRendered ==
    (pc = "done" /\ Recognized) =>
        LET e == rej[1].payload[1] IN
        /\ \A c \in AnyCause :
              with_status(body([e EXCEPT !.source = c]),
                          HttpError_status([e EXCEPT !.source = c])) = Reply
        /\ \A i \in 1..Depth(e) : Reply.body # Chain(e.source)[i]

\* A recovered error with a two-link cause and no message of its own.
C3_Witness ==
    /\ pc = "done"
    /\ Recognized
    /\ rej[1].payload[1].message = None
    /\ Depth(rej[1].payload[1]) = 2
    /\ outcome # None
    /\ outcome[1].is_ok

(***************************************************************************)
(* C4. A conversion applied to Err(e) gives Err of a rejection carrying an *)
(* HttpError whose cause is exactly e (same description, same further      *)
(* chain), whose status is 400 for client_err, 500 for server_err and the  *)
(* given S for with_err_status and with_err_msg, and whose message is      *)
(* unset, or what the closure returned for with_err_msg.  Recovering       *)
(* client_err of Err("not-a-number") gives 400 "Bad Request".              *)
(***************************************************************************)
C4_ConversionKeepsCause ==
    (call.op \in Conversions /\ ~call.self[1].is_ok) =>
        LET e == call.self[1].err[1] IN
        /\ rej # None
        /\ rej[1].kind = "HttpError"
        /\ conv = Some(Err_(rej[1]))
        /\ rej[1].payload # None
        /\ rej[1].payload[1].source # None
        /\ rej[1].payload[1].source[1].desc = e.desc
        /\ rej[1].payload[1].source[1].source = e.source
        /\ Chain(rej[1].payload[1].source) = <<e.desc>> \o Chain(e.source)
        /\ rej[1].payload[1].status =
              CASE call.op = "client_err" -> 400
                [] call.op = "server_err" -> 500
                [] OTHER -> call.status[1]
        /\ rej[1].payload[1].message =
              IF call.op = "with_err_msg" THEN call.msg ELSE None
        /\ (pc = "done" /\ call.op = "client_err"
                => outcome = Some(Ok_([status |-> 400, body |-> "Bad Request"])))

\* with_err_msg on a failure that has a cause of its own.
C4_Witness ==
    /\ call.op = "with_err_msg"
    /\ ~call.self[1].is_ok
    /\ call.self[1].err[1].source # None
    /\ rej # None
    /\ rej[1].payload[1].message = Some("no such user")
    /\ Depth(rej[1].payload[1]) = 2

(***************************************************************************)
(* C5. A conversion applied to Ok(v) returns Ok(v) with the same v, and    *)
(* creates no HttpError and no rejection.                                  *)
(***************************************************************************)
C5_OkUnchanged ==
    (call.op \in Conversions /\ call.self[1].is_ok) =>
        /\ conv = call.self
        /\ conv[1].is_ok
        /\ conv[1].val = call.self[1].val
        /\ conv[1].err = None
        /\ rej = None
        /\ err = None
        /\ outcome = None
        /\ log = <<>>

C5_Witness ==
    /\ call.op = "server_err"
    /\ call.self = Some(Ok_(42))
    /\ conv = Some(Ok_(42))
    /\ pc = "done"

(***************************************************************************)
(* C6. The closure given to with_err_msg is invoked zero times when the    *)
(* result is Ok and exactly once when it is Err, never more than once.     *)
(***************************************************************************)
C6_MessageLazy ==
    /\ msg_calls \in {0, 1}
    /\ (call.op = "with_err_msg" /\ call.self[1].is_ok => msg_calls = 0)
    /\ (call.op = "with_err_msg" /\ ~call.self[1].is_ok => msg_calls = 1)
    /\ (call.op # "with_err_msg" => msg_calls = 0)

C6_Witness ==
    /\ call.op = "with_err_msg"
    /\ call.self[1].is_ok
    /\ msg_calls = 0
    /\ conv # None

(***************************************************************************)
(* C7. For a recognized HttpError whose cause chain has N links, the       *)
(* logging walk ends and leaves exactly N + 1 lines: the error's own       *)
(* display line first (also when N = 0), then one line "  -> <link>" per   *)
(* link, outermost first; the reply exists only once the log is complete.  *)
(***************************************************************************)
C7_LogShape ==
    Recognized =>
        LET e == rej[1].payload[1]
            n == Depth(e)
            k == Len(log) - 1
        IN
        /\ (pc = "rejected" => log = <<>>)
        /\ (pc \in {"walk", "done"} =>
              /\ Len(log) >= 1
              /\ log[1] = "fail with status " \o ToString(e.status) \o " "
                            \o unwrap_or(canonical_reason(e.status),
                                         "<unknown status code>")
              /\ k <= n
              /\ \A i \in 1..k : log[i + 1] = "  -> " \o Chain(e.source)[i]
              /\ k + Len(Chain(source)) = n)
        /\ (pc = "done" => Len(log) = n + 1)
        /\ (outcome # None => Len(log) = n + 1 /\ pc = "done")

C7_LogWalk ==
    /\ [](C7_LogShape)
    /\ ((pc = "rejected" /\ Recognized) ~> (pc = "done" /\ outcome # None))

\* The walk over a two-link chain has ended with three lines.
C7_Witness ==
    /\ pc = "done"
    /\ Recognized
    /\ Depth(rej[1].payload[1]) = 2
    /\ Len(log) = 3
    /\ log[2] = "  -> io failure"
    /\ log[3] = "  -> not-a-number"

(***************************************************************************)
(* C8 as stated. The message of an HttpError, once set, is never altered.  *)
(***************************************************************************)
C8_MessageNeverAltered ==
    [][(Held # None /\ Held[1].message # None)
          => (Held' # None /\ Held'[1].message = Held[1].message)]_vars

(***************************************************************************)
(* C8 amended. The message of an HttpError changes only in a with_message  *)
(* step, which sets it to the message given (the last with_message wins);  *)
(* with_source, status(), message(), the move into the rejection and       *)
(* recover leave it as it is, and message() returns the stored message.    *)
(***************************************************************************)
C8_MessageSetOnlyByWithMessage ==
    [][Held # None =>
          /\ Held' # None
          /\ (Held'[1].message # Held[1].message
                => \E m \in Messages :
                      WithMessage(m) /\ Held'[1].message = Some(m))
          /\ (\A m \in Messages : WithMessage(m) => Held'[1].message = Some(m))
          /\ (ReadMessage => seen'.message = Some(Held[1].message))]_vars

\* A message was read, then replaced by a second with_message.
C8_Witness ==
    /\ err # None
    /\ steps = 2
    /\ call.op = "with_message"
    /\ seen.message # None
    /\ seen.message[1] # None
    /\ err[1].message # None
    /\ seen.message[1] # err[1].message

(***************************************************************************)
(* C9. no_content gives 204, ok gives 200 and status(S) gives S, each with *)
(* no message and no cause; the not_found, bad_request and forbidden       *)
(* shortcuts give a rejection carrying 404, 400 and 403, no cause and the  *)
(* message supplied, if any; internal_server_error(e) gives 500 with cause *)
(* e, and recovering it gives 500 "Internal Server Error" with e's         *)
(* description in the log.                                                 *)
(***************************************************************************)
C9_Constructors ==
    /\ (call.op = "no_content" =>
          Held = Some([status |-> 204, message |-> None, source |-> None]))
    /\ (call.op = "ok" =>
          Held = Some([status |-> 200, message |-> None, source |-> None]))
    /\ (call.op = "status" =>
          Held = Some([status |-> call.status[1], message |-> None,
                       source |-> None]))
    /\ (call.op \in {"not_found", "bad_request", "forbidden"} =>
          /\ Recognized
          /\ rej[1].payload =
                Some([status |-> CASE call.op = "not_found" -> 404
                                   [] call.op = "bad_request" -> 400
                                   [] OTHER -> 403,
                      message |-> call.msg,
                      source |-> None]))
    /\ (call.op = "internal_server_error" =>
          LET e == call.cause[1] IN
          /\ Held = Some([status |-> 500, message |-> None,
                          source |-> Some([desc |-> e.desc,
                                           source |-> e.source])])
          /\ (pc = "done" =>
                /\ outcome = Some(Ok_([status |-> 500,
                                       body |-> "Internal Server Error"]))
                /\ \E i \in 1..Len(log) : log[i] = "  -> " \o e.desc))

\* internal_server_error(e), with e caused by another failure, recovered.
C9_Witness ==
    /\ call.op = "internal_server_error"
    /\ call.cause[1].desc = "io failure"
    /\ call.cause[1].source # None
    /\ pc = "done"
    /\ Len(log) = 3
    /\ outcome = Some(Ok_([status |-> 500, body |-> "Internal Server Error"]))

(***************************************************************************)
(* C10. The status is fixed at construction: new(S) stores S, no later     *)
(* step changes it and status() returns it; with_message leaves the cause  *)
(* unchanged, with_source leaves the message unchanged, and recover leaves *)
(* status, message and cause unchanged.                                    *)
(***************************************************************************)
C10_StatusFixed ==
    [][/\ (\A s \in Statuses : New(s) =>
              Held' = Some([status |-> s, message |-> None, source |-> None]))
       /\ (Held # None => Held' # None /\ Held'[1].status = Held[1].status)
       /\ (ReadStatus => seen'.status = Some(Held[1].status))
       /\ (\A m \in Messages : WithMessage(m) =>
              Held'[1].source = Held[1].source)
       /\ (\A f \in Failures : WithSource(f) =>
              Held'[1].message = Held[1].message)
       /\ (Recover => Held' = Held)]_vars

\* A value built in two builder steps, its status read, then recovered.
C10_Witness ==
    /\ pc = "done"
    /\ Recognized
    /\ call.op \in {"with_message", "with_source"}
    /\ steps = 2
    /\ rej[1].payload[1].message # None
    /\ rej[1].payload[1].source # None
    /\ seen.status = Some(rej[1].payload[1].status)
    /\ outcome # None

====
